---- MODULE Spec2Model ----
(***************************************************************************)
(* Configuration-and-session layer of the Bitly MCP server (src/index.ts): *)
(* parseConfigFromURL, updateConfigFromURL, createProviders, createSDK and *)
(* the tool handlers, with the handlers' awaits as interleaving points.    *)
(***************************************************************************)
EXTENDS Integers, Sequences, FiniteSets, TLC

\* ------------------------------------------------------------------ bounds
MaxReconfigs == 2      \* updateConfigFromURL runs (startup and configure_from_url)
MaxCalls == 2          \* tool invocations started
MaxProcs == 2          \* tool invocations in flight at once
MaxGas == 2            \* network gas prices range over 1..MaxGas

Procs == 1..MaxProcs
GasPrices == 1..MaxGas

\* --------------------------------------------------------- program constants
DEFAULT_NETWORK_ID == 84532
DEFAULT_BLOCK_TIME == 2000
SETTLEMENT_MARGIN == 1000
UNAUTHORIZED_STATUS == 401

\* network ids of the object literal createProviders returns, in order
NetOrder == <<DEFAULT_NETWORK_ID, 8453, 137, 690>>
NetworkIds == {NetOrder[i] : i \in 1..Len(NetOrder)}

BLOCK_TIME == [n \in NetworkIds |-> 2000]

\* a network id outside the table, and the ids tool calls are made with
OtherNetworkId == 1
CallNetworkIds == {DEFAULT_NETWORK_ID, OtherNetworkId}

\* ------------------------------------------------------------ configuration
Undefined == "undefined"

\* let globalConfig = {WALLET_PRIVATE_KEY: undefined, INFURA_API_KEY: undefined}
InitialConfig == [WALLET_PRIVATE_KEY |-> Undefined, INFURA_API_KEY |-> Undefined]

\* JavaScript falsiness of a config field (undefined or the empty string)
Falsy(v) == v = Undefined \/ v = ""

\* ------------------------------------------------- configuration sources
\* A source string, described by what each stage of parseConfigFromURL
\* finds in it: whether new URL() accepts it, whether the query has
\* "config", the characters of that parameter and the text its base64
\* content decodes to.
GoodWallets == {"0xkeyA", "0xkeyB"}
BadWallet == "notakey"

NoDoc == [syntax |-> "bad", wallet |-> Undefined, key |-> Undefined]
ObjDoc(w, k) == [syntax |-> "object", wallet |-> w, key |-> k]

Source(isURL, hasParam, chars, doc) ==
    [isURL |-> isURL, hasParam |-> hasParam, chars |-> chars, doc |-> doc]

SrcNotURL == Source(FALSE, FALSE, "empty", NoDoc)
SrcNoParam == Source(TRUE, FALSE, "empty", NoDoc)
SrcEmptyParam == Source(TRUE, TRUE, "empty", NoDoc)
SrcBadJSON == Source(TRUE, TRUE, "clean", NoDoc)
SrcJSONNull == Source(TRUE, TRUE, "clean", [NoDoc EXCEPT !.syntax = "null"])
SrcJSONNumber == Source(TRUE, TRUE, "clean", [NoDoc EXCEPT !.syntax = "number"])
SrcNoWallet == Source(TRUE, TRUE, "clean", ObjDoc(Undefined, "infura1"))
SrcEmptyKey == Source(TRUE, TRUE, "clean", ObjDoc("0xkeyA", ""))
SrcA == Source(TRUE, TRUE, "clean", ObjDoc("0xkeyA", "infura1"))
SrcB == Source(TRUE, TRUE, "clean", ObjDoc("0xkeyB", "infura2"))
SrcBadCred == Source(TRUE, TRUE, "clean", ObjDoc(BadWallet, "infura1"))
SrcDirtyA == Source(TRUE, TRUE, "dirty", ObjDoc("0xkeyA", "infura1"))

Sources ==
    {SrcNotURL, SrcNoParam, SrcEmptyParam, SrcBadJSON, SrcJSONNull, SrcJSONNumber,
     SrcNoWallet, SrcEmptyKey, SrcA, SrcB, SrcBadCred, SrcDirtyA}

\* ---------------------------------------------------- parseConfigFromURL
Thrown == [ok |-> FALSE, config |-> InitialConfig]
Parsed(c) == [ok |-> TRUE, config |-> c]

\* urlObj.searchParams.get('config'): null without the parameter, "" for an
\* empty one; both are falsy at line 21
ConfigParamFalsy(url) == ~url.hasParam \/ url.chars = "empty"

\* Buffer.from(configParam, 'base64').toString('utf-8') never throws:
\* characters outside the base64 alphabet are skipped, so a "dirty"
\* parameter decodes to the same text as a clean one
DecodedText(url) == url.doc

\* JSON.parse(decodedConfig) followed by the field reads of line 30:
\* a syntax error throws, reading a field of null throws; a number has no
\* such fields
JSONThrows(doc) == doc.syntax = "bad" \/ doc.syntax = "null"
JSONFields(doc) ==
    IF doc.syntax = "object"
    THEN [WALLET_PRIVATE_KEY |-> doc.wallet, INFURA_API_KEY |-> doc.key]
    ELSE InitialConfig

\* variant: line 30 tests the fields with && and throws only when both are
\* missing
parseConfigFromURL_EitherField(url) ==
    IF ~url.isURL THEN Thrown
    ELSE IF ConfigParamFalsy(url) THEN Thrown
    ELSE IF JSONThrows(DecodedText(url)) THEN Thrown
    ELSE LET config == JSONFields(DecodedText(url))
         IN  IF Falsy(config.WALLET_PRIVATE_KEY) /\ Falsy(config.INFURA_API_KEY)
             THEN Thrown
             ELSE Parsed(config)

\* the result is null (ok = FALSE) or the parsed config
parseConfigFromURL(url) ==
    IF ~url.isURL THEN Thrown
    ELSE IF ConfigParamFalsy(url) THEN Thrown
    ELSE IF JSONThrows(DecodedText(url)) THEN Thrown
    ELSE LET config == JSONFields(DecodedText(url))
         IN  IF Falsy(config.WALLET_PRIVATE_KEY) \/ Falsy(config.INFURA_API_KEY)
             THEN Thrown
             ELSE Parsed(config)

\* ------------------------------------------------------- createProviders
\* A JsonRpcProvider is a handle: its position in conns. The endpoint of
\* network 690 does not use the API key.
NoProvider == 0
NoFee == [installed |-> FALSE, gasPrice |-> 0]
EndpointKey(n, key) == IF n = 690 THEN "" ELSE key
NewConnection(n, key) == [network |-> n, apiKey |-> EndpointKey(n, key), fee |-> NoFee]

\* variant: providers are kept per network and handed out again
NewHandle_Reused(i, allocated) == i

\* the handle createProviders gives network NetOrder[i] when `allocated`
\* providers exist already: each `new providers.JsonRpcProvider` is a new one
NewHandle(i, allocated) == allocated + i

IndexOf(n) == CHOOSE i \in 1..Len(NetOrder) : NetOrder[i] = n

\* createProviders(config): throws without an API key or when one of the
\* constructors throws; otherwise the record of the four new providers
createProviders(config, allocated, ctorThrows) ==
    IF Falsy(config.INFURA_API_KEY) \/ ctorThrows
    THEN [threw |-> TRUE, providers |-> <<>>, conns |-> <<>>]
    ELSE [threw |-> FALSE,
          providers |-> [n \in NetworkIds |-> NewHandle(IndexOf(n), allocated)],
          conns |-> [i \in 1..Len(NetOrder) |->
                        NewConnection(NetOrder[i], config.INFURA_API_KEY)]]

\* PROVIDERS[networkId], NoProvider standing for undefined
Lookup(providers, n) == IF n \in DOMAIN providers THEN providers[n] ELSE NoProvider

Range(f) == {f[x] : x \in DOMAIN f}

\* ------------------------------------------------------------------- tools
ReadTools ==
    {"get_balance", "get_trade_pairs_info", "get_tokens_info", "get_trade_volumes",
     "get_orderbook", "get_my_open_orders", "get_finished_orders",
     "get_market_order_history", "get_prices", "get_klines"}
\* handlers that call setTimeout and updateKline after the delegate
RefreshTools == {"place_limit_order", "place_market_order"}
\* handlers of transactions that return right after the delegate
PlainTxTools ==
    {"cancel_limit_order", "cancel_all_limit_order", "claim_earning", "claim_all_earnings"}
TOOLS == ReadTools \cup RefreshTools \cup PlainTxTools

\* the tools calls are made with
CallTools == {"get_balance", "place_limit_order", "cancel_limit_order"}

\* ------------------------------------------------------------------ errors
NoError == [kind |-> "none", thrown |-> "none", statusCode |-> 0, message |-> ""]
NotConfiguredError ==
    [kind |-> "NotConfigured", thrown |-> "Error", statusCode |-> 0,
     message |-> "Configuration not provided. Use configure_from_url tool or set MCP_SERVER_URL"]
UnknownNetworkError ==
    [kind |-> "UnknownNetwork", thrown |-> "Error", statusCode |-> 0,
     message |-> "Provider not available for network. Configuration may not be properly set."]
RpcError ==
    [kind |-> "RpcError", thrown |-> "Error", statusCode |-> 0,
     message |-> "could not detect network"]
\* what a rejected delegate operation, and a rejected updateKline, throw
DelegateError ==
    [kind |-> "DelegateError", thrown |-> "Error", statusCode |-> 0,
     message |-> "exchange operation failed"]
RefreshError ==
    [kind |-> "RefreshError", thrown |-> "Error", statusCode |-> 0,
     message |-> "kline update failed"]
\* new Wallet(key, provider) throws for a key that is no private key
WalletThrows(key) == key \notin GoodWallets
WalletCause(key) == "invalid private key"
\* variant: the Wallet's error is rethrown as it is
UnauthorizedError_Rethrown(cause) ==
    [kind |-> "WalletError", thrown |-> "Error", statusCode |-> 0, message |-> cause]

\* the ServerResponse thrown at lines 114-117
UnauthorizedError(cause) ==
    [kind |-> "Unauthorized", thrown |-> "ServerResponse",
     statusCode |-> UNAUTHORIZED_STATUS, message |-> "Unauthorized - " \o cause]

\* ------------------------------------------------------------------- state
VARIABLES
    phase,         \* "startup" while the module body runs, then "serving"
    globalConfig,  \* let globalConfig
    PROVIDERS,     \* let PROVIDERS: network id -> provider handle
    conns,         \* the providers constructed so far, by handle
    reconfigs,     \* updateConfigFromURL runs so far, and those that rebuilt PROVIDERS
    lastReconf,    \* what the last updateConfigFromURL run did and reported
    calls,         \* number of tool invocations started
    pc,            \* per invocation: the await its handler is suspended at
    loc,           \* per invocation: the handler's and createSDK's locals
    timers,        \* invocations whose setTimeout timer has not fired yet
    probe          \* two sources under study and what parseConfigFromURL returned

vars == <<phase, globalConfig, PROVIDERS, conns, reconfigs, lastReconf, calls, pc,
          loc, timers, probe>>

NoReconf ==
    [via |-> "none", decoded |-> FALSE, rebuilt |-> FALSE, threw |-> FALSE,
     report |-> ""]

NoLocals ==
    [tool |-> "", networkId |-> 0, id |-> 0,
     checkedConfig |-> InitialConfig,  \* globalConfig as read at line 88
     provider |-> NoProvider,          \* const provider (line 92)
     feeQueries |-> 0,                 \* provider.getFeeData() calls issued
     feeVia |-> "none",                \* which getFeeData answered: "rpc" or "override"
     feeGas |-> 0,                     \* feeData.gasPrice
     hasSdk |-> FALSE,                 \* new BitlySDK(...) was constructed
     sdkProvider |-> NoProvider,       \* sdk.provider
     hasSigner |-> FALSE,              \* sdk.signer is set
     signerKey |-> Undefined,          \* the key the Wallet was made from
     signerProvider |-> NoProvider,    \* the provider the Wallet is bound to
     delegateCalls |-> 0,              \* delegate operations invoked
     delegateProvider |-> NoProvider,  \* sdk.provider when the delegate ran
     refreshCalls |-> 0,               \* sdk.prices.updateKline calls
     refreshBeforeTimer |-> FALSE,     \* updateKline ran with the timer pending
     timeoutMs |-> 0,                  \* the delay given to setTimeout
     err |-> NoError,                  \* what the handler threw
     result |-> ""]                    \* what the handler returned

\* the sources under study: src, whether parseConfigFromURL was applied to
\* each (ran) and what it returned (out), and which of the two the last
\* configure_from_url call was given (last, 0 for none)
Probe(a, b) ==
    [src |-> <<a, b>>, ran |-> <<FALSE, FALSE>>, out |-> <<Thrown, Thrown>>,
     last |-> 0]

NoProbe == Probe(SrcNotURL, SrcNotURL)

Init ==
    /\ probe = NoProbe
    /\ phase = "startup"
    /\ globalConfig = InitialConfig
    /\ PROVIDERS = <<>>
    /\ conns = <<>>
    /\ reconfigs = [runs |-> 0, rebuilt |-> 0]
    /\ lastReconf = NoReconf
    /\ calls = 0
    /\ pc = [p \in Procs |-> "idle"]
    /\ loc = [p \in Procs |-> NoLocals]
    /\ timers = {}

\* --------------------------------------------------- updateConfigFromURL
\* variant: the parse result is assigned without the test of line 395
NewGlobalConfig_Unchecked(urlConfig, old) == urlConfig.config

\* variant: a configuration is taken only while none is held
NewGlobalConfig_KeepFirst(urlConfig, old) ==
    IF urlConfig.ok /\ old = InitialConfig THEN urlConfig.config ELSE old

\* lines 395-397 and 404-406: globalConfig after the run
NewGlobalConfig(urlConfig, old) == IF urlConfig.ok THEN urlConfig.config ELSE old

\* variant: the catch block of line 401 resets PROVIDERS
NewProviders_ResetOnThrow(urlConfig, built, old) ==
    IF ~urlConfig.ok THEN old
    ELSE IF built.threw THEN <<>> ELSE built.providers

\* lines 398-403: PROVIDERS after the run; a throw of createProviders is
\* caught and leaves PROVIDERS as it was
NewProviders(urlConfig, built, old) ==
    IF urlConfig.ok /\ ~built.threw THEN built.providers ELSE old

\* the providers constructed so far, after the run
NewConns(urlConfig, built, old) ==
    IF urlConfig.ok /\ ~built.threw THEN old \o built.conns ELSE old

\* whether the run ends by an exception leaving updateConfigFromURL: both
\* parseConfigFromURL and the try block of lines 398-403 catch theirs
UpdateThrows(urlConfig, built) == FALSE

\* line 422: what configure_from_url returns
ConfigureReport(urlConfig, built) == "Configuration updated successfully"

updateConfigFromURL(url, ctorThrows, via) ==
    LET urlConfig == parseConfigFromURL(url)
        config == NewGlobalConfig(urlConfig, globalConfig)
        built == createProviders(config, Len(conns), ctorThrows)
        rebuilt == urlConfig.ok /\ ~built.threw
    IN  /\ reconfigs.runs < MaxReconfigs
        /\ globalConfig' = config
        /\ PROVIDERS' = NewProviders(urlConfig, built, PROVIDERS)
        /\ conns' = NewConns(urlConfig, built, conns)
        /\ reconfigs' = [runs |-> reconfigs.runs + 1,
                          rebuilt |-> reconfigs.rebuilt + (IF rebuilt THEN 1 ELSE 0)]
        /\ lastReconf' = [via |-> via, decoded |-> urlConfig.ok,
                          rebuilt |-> rebuilt,
                          threw |-> UpdateThrows(urlConfig, built),
                          report |-> IF via = "tool"
                                     THEN ConfigureReport(urlConfig, built) ELSE ""]

\* lines 427-431 with MCP_SERVER_URL set, then server.start
StartupConfigured(url, ctorThrows) ==
    /\ phase = "startup"
    /\ updateConfigFromURL(url, ctorThrows, "startup")
    /\ phase' = "serving"
    /\ UNCHANGED <<calls, pc, loc, timers, probe>>

\* lines 427-433 without MCP_SERVER_URL
StartupUnconfigured ==
    /\ phase = "startup"
    /\ phase' = "serving"
    /\ UNCHANGED <<globalConfig, PROVIDERS, conns, reconfigs, lastReconf,
                   calls, pc, loc, timers, probe>>

\* the configure_from_url tool (lines 420-423): it has no await
ConfigureFromUrl(url, ctorThrows) ==
    /\ phase = "serving"
    /\ updateConfigFromURL(url, ctorThrows, "tool")
    /\ UNCHANGED <<phase, calls, pc, loc, timers, probe>>

\* ---------------------------------------------------------------- createSDK
\* line 88: the check that throws the "Configuration not provided" error
NotConfigured(config) ==
    Falsy(config.WALLET_PRIVATE_KEY) \/ Falsy(config.INFURA_API_KEY)

\* variant: one message for both precondition failures
PreconditionError_OneKind(config, providers, networkId) ==
    IF NotConfigured(config) \/ Lookup(providers, networkId) = NoProvider
    THEN NotConfiguredError
    ELSE NoError

\* what createSDK throws before its first await, NoError if it gets to
\* provider.getFeeData() (lines 88-95)
PreconditionError(config, providers, networkId) ==
    IF NotConfigured(config) THEN NotConfiguredError
    ELSE IF Lookup(providers, networkId) = NoProvider THEN UnknownNetworkError
    ELSE NoError

\* the function lines 97-105 assign to provider.getFeeData
FeeOverride(gasPrice) == [installed |-> TRUE, gasPrice |-> gasPrice]

\* what the provider's own getFeeData resolves to at network gas price g
ProviderFeeData(g) ==
    [lastBaseFeePerGas |-> "set", maxFeePerGas |-> "set",
     maxPriorityFeePerGas |-> "set", gasPrice |-> g]

\* what the function of lines 97-105 resolves to
LegacyFeeData(gasPrice) ==
    [lastBaseFeePerGas |-> "null", maxFeePerGas |-> "null",
     maxPriorityFeePerGas |-> "null", gasPrice |-> gasPrice]

\* variant: the assigned function asks the network again for the gas price
getFeeData_LiveGasPrice(conn, g) ==
    IF conn.fee.installed THEN LegacyFeeData(g) ELSE ProviderFeeData(g)

\* provider.getFeeData() at network gas price g: the provider's own method
\* until line 97 has assigned one, the assigned function after
getFeeData(conn, g) ==
    IF conn.fee.installed THEN LegacyFeeData(conn.fee.gasPrice) ELSE ProviderFeeData(g)

\* the handler returns JSON.stringify(info): the sdk, its signer and the other
\* locals are dropped with it
Returned(l) ==
    [NoLocals EXCEPT !.tool = l.tool, !.networkId = l.networkId, !.id = l.id,
                     !.feeQueries = l.feeQueries,
                     !.delegateCalls = l.delegateCalls,
                     !.refreshCalls = l.refreshCalls,
                     !.refreshBeforeTimer = l.refreshBeforeTimer,
                     !.timeoutMs = l.timeoutMs,
                     !.result = "json"]

\* variant: execute catches what it awaits and throws a new Error with the
\* message
Rejection_Stringified(e) ==
    [kind |-> "Error", thrown |-> "Error", statusCode |-> 0, message |-> e.message]

\* what execute rejects with when something it awaits throws e: no execute
\* has a try/catch, so it is e itself
Rejection(e) == e

Fail(p, e) ==
    /\ pc' = [pc EXCEPT ![p] = "failed"]
    /\ loc' = [loc EXCEPT ![p].err = Rejection(e)]

\* the record a new invocation runs in: the first one free
FreeProc(p) ==
    /\ pc[p] \in {"idle", "done", "failed"}
    /\ \A q \in Procs : q < p => pc[q] \notin {"idle", "done", "failed"}

\* A tool is called: execute runs createSDK up to `await provider.getFeeData()`
\* (lines 87-96) or to the throw of line 89 or 94. g is the gas price of the
\* network at the call; a provider with an assigned getFeeData answers from it.
Call(p, tool, networkId, g) ==
    /\ phase = "serving"
    /\ FreeProc(p)
    /\ calls < MaxCalls
    /\ calls' = calls + 1
    /\ LET e == PreconditionError(globalConfig, PROVIDERS, networkId)
           provider == Lookup(PROVIDERS, networkId)
           args == [NoLocals EXCEPT !.tool = tool, !.networkId = networkId,
                                    !.id = calls + 1,
                                    !.checkedConfig = globalConfig]
       IN  IF e # NoError
           THEN /\ pc' = [pc EXCEPT ![p] = "failed"]
                /\ loc' = [loc EXCEPT ![p] = [args EXCEPT !.err = Rejection(e)]]
           ELSE /\ pc' = [pc EXCEPT ![p] = "awaitFee"]
                /\ loc' = [loc EXCEPT ![p] =
                       [args EXCEPT !.provider = provider,
                                    !.feeQueries = 1,
                                    !.feeVia = IF conns[provider].fee.installed
                                               THEN "override" ELSE "rpc",
                                    !.feeGas = IF conns[provider].fee.installed
                                               THEN getFeeData(conns[provider],
                                                               g).gasPrice
                                               ELSE 0]]
    /\ UNCHANGED <<phase, globalConfig, PROVIDERS, conns, reconfigs,
                   lastReconf, timers, probe>>

\* the gas prices the pending fee query of p can resolve to: any the network
\* may have for the provider's own method, the one already taken otherwise
FeeAnswers(p) ==
    IF loc[p].feeVia = "rpc" THEN {ProviderFeeData(g).gasPrice : g \in GasPrices}
    ELSE {loc[p].feeGas}

\* The fee query is answered with gas price gas: lines 97-112 run up to
\* `await sdk.setSigner`, or to the throw of line 117 when new Wallet throws.
FeeReturn(p, gas) ==
    /\ pc[p] = "awaitFee"
    /\ gas \in FeeAnswers(p)
    /\ LET l == loc[p]
           key == globalConfig.WALLET_PRIVATE_KEY
           built == [l EXCEPT !.feeGas = gas, !.hasSdk = TRUE,
                              !.sdkProvider = l.provider]
       IN  /\ conns' = [conns EXCEPT ![l.provider].fee = FeeOverride(gas)]
           /\ IF WalletThrows(key)
              THEN /\ pc' = [pc EXCEPT ![p] = "failed"]
                   /\ loc' = [loc EXCEPT ![p] =
                          [built EXCEPT !.err =
                              Rejection(UnauthorizedError(WalletCause(key)))]]
              ELSE /\ pc' = [pc EXCEPT ![p] = "awaitSetSigner"]
                   /\ loc' = [loc EXCEPT ![p] =
                          [built EXCEPT !.hasSigner = TRUE,
                                        !.signerKey = key,
                                        !.signerProvider =
                                            Lookup(PROVIDERS, l.networkId)]]
    /\ UNCHANGED <<phase, globalConfig, PROVIDERS, reconfigs, lastReconf,
                   calls, timers, probe>>

\* The provider's own getFeeData rejects (the endpoint cannot be reached):
\* createSDK rejects with that error and nothing is assigned.
FeeReject(p) ==
    /\ pc[p] = "awaitFee"
    /\ loc[p].feeVia = "rpc"
    /\ Fail(p, RpcError)
    /\ UNCHANGED <<phase, globalConfig, PROVIDERS, conns, reconfigs,
                   lastReconf, calls, timers, probe>>

\* sdk.setSigner resolves, createSDK returns the sdk and the handler calls
\* sdk.setProvider(PROVIDERS[args.networkId]).
SetSignerReturn(p) ==
    /\ pc[p] = "awaitSetSigner"
    /\ pc' = [pc EXCEPT ![p] = "awaitSetProvider"]
    /\ loc' = [loc EXCEPT ![p].sdkProvider = Lookup(PROVIDERS, loc[p].networkId)]
    /\ UNCHANGED <<phase, globalConfig, PROVIDERS, conns, reconfigs,
                   lastReconf, calls, timers, probe>>

\* variant: the handler calls its delegate operation a second time
InvokeDelegate_Twice(l) ==
    [l EXCEPT !.delegateCalls = @ + 2, !.delegateProvider = l.sdkProvider]

\* the one call of a delegate operation in a handler (line 133): it runs on
\* sdk.provider
InvokeDelegate(l) ==
    [l EXCEPT !.delegateCalls = @ + 1, !.delegateProvider = l.sdkProvider]

\* sdk.setProvider resolves and the handler invokes its delegate operation.
SetProviderReturn(p) ==
    /\ pc[p] = "awaitSetProvider"
    /\ pc' = [pc EXCEPT ![p] = "awaitDelegate"]
    /\ loc' = [loc EXCEPT ![p] = InvokeDelegate(loc[p])]
    /\ UNCHANGED <<phase, globalConfig, PROVIDERS, conns, reconfigs,
                   lastReconf, calls, timers, probe>>

\* (BLOCK_TIME[args.networkId] ?? DEFAULT_BLOCK_TIME) + 1000
SettlementDelay(networkId) ==
    (IF networkId \in DOMAIN BLOCK_TIME THEN BLOCK_TIME[networkId]
     ELSE DEFAULT_BLOCK_TIME) + SETTLEMENT_MARGIN

\* The delegate resolves. place_limit_order and place_market_order call
\* setTimeout and await the Timeout object it returns; the other handlers
\* return JSON.stringify of the delegate's value.
DelegateReturn(p) ==
    /\ pc[p] = "awaitDelegate"
    /\ IF loc[p].tool \in RefreshTools
       THEN /\ pc' = [pc EXCEPT ![p] = "awaitTimeout"]
            /\ loc' = [loc EXCEPT ![p].timeoutMs = SettlementDelay(loc[p].networkId)]
            /\ timers' = timers \cup {loc[p].id}
       ELSE /\ pc' = [pc EXCEPT ![p] = "done"]
            /\ loc' = [loc EXCEPT ![p] = Returned(loc[p])]
            /\ timers' = timers
    /\ UNCHANGED <<phase, globalConfig, PROVIDERS, conns, reconfigs,
                   lastReconf, calls, probe>>

\* `await setTimeout(...)` awaits a value that is no promise: the handler
\* resumes without the timer and calls sdk.prices.updateKline.
TimeoutAwaitReturn(p) ==
    /\ pc[p] = "awaitTimeout"
    /\ pc' = [pc EXCEPT ![p] = "awaitRefresh"]
    /\ loc' = [loc EXCEPT ![p].refreshCalls = @ + 1,
                          ![p].refreshBeforeTimer = loc[p].id \in timers]
    /\ UNCHANGED <<phase, globalConfig, PROVIDERS, conns, reconfigs,
                   lastReconf, calls, timers, probe>>

\* updateKline resolves and the handler returns JSON.stringify(info).
RefreshReturn(p) ==
    /\ pc[p] = "awaitRefresh"
    /\ pc' = [pc EXCEPT ![p] = "done"]
    /\ loc' = [loc EXCEPT ![p] = Returned(loc[p])]
    /\ UNCHANGED <<phase, globalConfig, PROVIDERS, conns, reconfigs,
                   lastReconf, calls, timers, probe>>

\* The delegate operation rejects: the handler has no try/catch, so execute
\* rejects with the delegate's error.
DelegateReject(p) ==
    /\ pc[p] = "awaitDelegate"
    /\ Fail(p, DelegateError)
    /\ UNCHANGED <<phase, globalConfig, PROVIDERS, conns, reconfigs,
                   lastReconf, calls, timers, probe>>

\* sdk.prices.updateKline rejects: line 226 (and 248) awaits it outside any
\* try/catch, so execute rejects and `return JSON.stringify(info)` is not reached.
RefreshReject(p) ==
    /\ pc[p] = "awaitRefresh"
    /\ Fail(p, RefreshError)
    /\ UNCHANGED <<phase, globalConfig, PROVIDERS, conns, reconfigs,
                   lastReconf, calls, timers, probe>>

\* A setTimeout timer expires and runs its empty callback.
TimerFire(id) ==
    /\ id \in timers
    /\ timers' = timers \ {id}
    /\ UNCHANGED <<phase, globalConfig, PROVIDERS, conns, reconfigs,
                   lastReconf, calls, pc, loc, probe>>

\* the constructors of createProviders run, and may throw, only when the
\* source parses
CtorOutcomes(url) == IF parseConfigFromURL(url).ok THEN BOOLEAN ELSE {FALSE}

Next ==
    \/ \E url \in Sources : \E ctorThrows \in CtorOutcomes(url) :
          StartupConfigured(url, ctorThrows)
    \/ StartupUnconfigured
    \/ \E url \in Sources : \E ctorThrows \in CtorOutcomes(url) :
          ConfigureFromUrl(url, ctorThrows)
    \/ \E p \in Procs, tool \in CallTools, n \in CallNetworkIds, g \in GasPrices :
          Call(p, tool, n, g)
    \/ \E p \in Procs, gas \in GasPrices : FeeReturn(p, gas)
    \/ \E p \in Procs : FeeReject(p)
    \/ \E p \in Procs : SetSignerReturn(p)
    \/ \E p \in Procs : SetProviderReturn(p)
    \/ \E p \in Procs : DelegateReturn(p)
    \/ \E p \in Procs : DelegateReject(p)
    \/ \E p \in Procs : TimeoutAwaitReturn(p)
    \/ \E p \in Procs : RefreshReturn(p)
    \/ \E p \in Procs : RefreshReject(p)
    \/ \E id \in 1..MaxCalls : TimerFire(id)

Spec == Init /\ [][Next]_vars

\* Invocations one at a time: a tool is called only when no other
\* invocation is in flight.
NoneInFlight == \A q \in Procs : pc[q] \in {"idle", "done", "failed"}

CallAlone(p, tool, networkId, g) == NoneInFlight /\ Call(p, tool, networkId, g)

NextSeq ==
    \/ \E url \in Sources : \E ctorThrows \in CtorOutcomes(url) :
          StartupConfigured(url, ctorThrows)
    \/ StartupUnconfigured
    \/ \E url \in Sources : \E ctorThrows \in CtorOutcomes(url) :
          ConfigureFromUrl(url, ctorThrows)
    \/ \E p \in Procs, tool \in CallTools, n \in CallNetworkIds, g \in GasPrices :
          CallAlone(p, tool, n, g)
    \/ \E p \in Procs, gas \in GasPrices : FeeReturn(p, gas)
    \/ \E p \in Procs : FeeReject(p)
    \/ \E p \in Procs : SetSignerReturn(p)
    \/ \E p \in Procs : SetProviderReturn(p)
    \/ \E p \in Procs : DelegateReturn(p)
    \/ \E p \in Procs : DelegateReject(p)
    \/ \E p \in Procs : TimeoutAwaitReturn(p)
    \/ \E p \in Procs : RefreshReturn(p)
    \/ \E p \in Procs : RefreshReject(p)
    \/ \E id \in 1..MaxCalls : TimerFire(id)

SpecSeq == Init /\ [][NextSeq]_vars

\* ------------------------------------------------ the decoder on its own
\* Two sources are fixed at the start; parseConfigFromURL is applied to each,
\* and configure_from_url is called with either, in any order.
InitParse ==
    /\ \E a \in Sources, b \in Sources : probe = Probe(a, b)
    /\ phase = "startup"
    /\ globalConfig = InitialConfig
    /\ PROVIDERS = <<>>
    /\ conns = <<>>
    /\ reconfigs = [runs |-> 0, rebuilt |-> 0]
    /\ lastReconf = NoReconf
    /\ calls = 0
    /\ pc = [p \in Procs |-> "idle"]
    /\ loc = [p \in Procs |-> NoLocals]
    /\ timers = {}

\* parseConfigFromURL(probe.src[i]) is evaluated and its value kept
ParseProbe(i) ==
    /\ ~probe.ran[i]
    /\ probe' = [probe EXCEPT !.ran[i] = TRUE,
                              !.out[i] = parseConfigFromURL(probe.src[i])]
    /\ UNCHANGED <<phase, globalConfig, PROVIDERS, conns, reconfigs,
                   lastReconf, calls, pc, loc, timers>>

\* configure_from_url is called with url = probe.src[i]
ConfigureProbe(i, ctorThrows) ==
    /\ phase = "serving"
    /\ updateConfigFromURL(probe.src[i], ctorThrows, "tool")
    /\ probe' = [probe EXCEPT !.last = i]
    /\ UNCHANGED <<phase, calls, pc, loc, timers>>

NextParse ==
    \/ StartupUnconfigured
    \/ \E i \in 1..2 : ParseProbe(i)
    \/ \E i \in 1..2 : \E ctorThrows \in CtorOutcomes(probe.src[i]) :
          ConfigureProbe(i, ctorThrows)

SpecParse == InitParse /\ [][NextParse]_vars

\* ================================================================== claims
\* a step that is a run of updateConfigFromURL
ReconfigStep == reconfigs'.runs = reconfigs.runs + 1

\* a step in which invocation p is called
CallStep(p) == calls' = calls + 1 /\ loc'[p].id = calls'

\* C1: a reconfiguration attempt whose source fails to decode leaves the held
\* configuration and the registry exactly as they were.
C1_FailedDecodeKeepsState ==
    [][(ReconfigStep /\ ~lastReconf'.decoded)
          => (globalConfig' = globalConfig /\ PROVIDERS' = PROVIDERS /\ conns' = conns)]_vars

\* a source failed to decode while a configuration and a registry were held
C1_Witness ==
    /\ reconfigs.runs = 2
    /\ ~lastReconf.decoded
    /\ lastReconf.via = "tool"
    /\ ~NotConfigured(globalConfig)
    /\ PROVIDERS # <<>>

\* C2 (as claimed): while no reconfiguration has succeeded the registry is
\* empty and createSDK fails with the NotConfigured error for every network id.
C2_NotConfiguredUntilSuccess ==
    reconfigs.rebuilt = 0 =>
        /\ PROVIDERS = <<>>
        /\ \A n \in NetworkIds \cup {OtherNetworkId} :
              PreconditionError(globalConfig, PROVIDERS, n) = NotConfiguredError
        /\ \A p \in Procs : pc[p] = "failed" => loc[p].err = NotConfiguredError

\* C3 (as claimed): within one createSDK the configuration checked, the
\* provider taken, the key of the signer and the provider the signer is bound
\* to belong to one state of (globalConfig, PROVIDERS).
C3_SessionFromOneSnapshot ==
    \A p \in Procs : loc[p].hasSigner =>
        /\ loc[p].signerProvider = loc[p].provider
        /\ loc[p].signerKey = loc[p].checkedConfig.WALLET_PRIVATE_KEY

\* C4: with sessions created one after the other, a provider that has the
\* assigned getFeeData answers every later fee query with the three
\* dynamic-fee fields null and the gas price it was first given, whatever the
\* gas price of the network is by then; the first assignment takes the gas
\* price the network answered the session with.
C4_OverrideKeepsFirstGasPrice ==
    [][\A h \in DOMAIN conns : \A g \in GasPrices :
          /\ conns[h].fee.installed =>
                getFeeData(conns'[h], g) = LegacyFeeData(conns[h].fee.gasPrice)
          /\ (~conns[h].fee.installed /\ conns'[h].fee.installed) =>
                \E p \in Procs :
                    /\ pc[p] = "awaitFee" /\ loc[p].provider = h
                    /\ loc[p].feeVia = "rpc"
                    /\ getFeeData(conns'[h], g) = LegacyFeeData(loc'[p].feeGas)]_vars

\* a second session was created on a provider that had the assigned
\* getFeeData, which still answers with the gas price of the first session
C4_Witness ==
    \E p \in Procs :
        /\ pc[p] = "awaitSetSigner"
        /\ loc[p].id = 2
        /\ loc[p].feeVia = "override"
        /\ conns[loc[p].provider].fee.installed
        /\ \E g \in GasPrices :
              /\ g # conns[loc[p].provider].fee.gasPrice
              /\ getFeeData(conns[loc[p].provider], g).gasPrice = loc[p].feeGas

\* C5 (as claimed): also with overlapping createSDK calls on one provider,
\* the gas price of the assigned getFeeData never changes once assigned.
C5_OverrideAssignedOnce ==
    [][\A h \in DOMAIN conns :
          conns[h].fee.installed => conns'[h].fee.gasPrice = conns[h].fee.gasPrice]_vars

\* C6: with a configuration held, createSDK for a network id without a
\* provider throws the UnknownNetwork error and changes nothing: no fee query,
\* no sdk, no signer.
C6_UnknownNetworkNoEffect ==
    [][\A p \in Procs :
          (/\ CallStep(p)
           /\ ~NotConfigured(globalConfig)
           /\ loc'[p].networkId \notin DOMAIN PROVIDERS)
          => /\ pc'[p] = "failed"
             /\ loc'[p].err.kind = "UnknownNetwork"
             /\ loc'[p].err.thrown = "Error"
             /\ loc'[p].feeQueries = 0
             /\ ~loc'[p].hasSdk /\ ~loc'[p].hasSigner
             /\ loc'[p].delegateCalls = 0
             /\ UNCHANGED <<globalConfig, PROVIDERS, conns>>]_vars

\* createSDK threw UnknownNetwork for an id outside a built registry
C6_Witness ==
    \E p \in Procs :
        /\ pc[p] = "failed"
        /\ loc[p].err.kind = "UnknownNetwork"
        /\ loc[p].networkId = OtherNetworkId
        /\ PROVIDERS # <<>>
        /\ \E h \in DOMAIN conns : conns[h].fee.installed

\* the awaits a handler can be at once createSDK has returned
SessionPcs == {"awaitSetProvider", "awaitDelegate", "awaitTimeout", "awaitRefresh"}

\* C7: when the key held cannot make a Wallet, createSDK throws the 401
\* ServerResponse whose message carries the Wallet's error, a value none of
\* the other failures throws; no sdk leaves createSDK without a signer.
C7_BadCredentialUnauthorized ==
    [][\A p \in Procs :
          /\ (pc[p] = "awaitFee" /\ loc'[p].hasSdk
                /\ globalConfig.WALLET_PRIVATE_KEY \notin GoodWallets)
             => /\ pc'[p] = "failed"
                /\ loc'[p].err.kind = "Unauthorized"
                /\ loc'[p].err.thrown = "ServerResponse"
                /\ loc'[p].err.statusCode = 401
                /\ loc'[p].err.message =
                      "Unauthorized - " \o WalletCause(globalConfig.WALLET_PRIVATE_KEY)
                /\ loc'[p].err \notin {NotConfiguredError, UnknownNetworkError, RpcError}
                /\ ~loc'[p].hasSigner
          /\ pc'[p] \in SessionPcs
             => (loc'[p].hasSigner /\ loc'[p].signerKey \in GoodWallets)]_vars

\* createSDK threw the 401 response for a known network
C7_Witness ==
    \E p \in Procs :
        /\ pc[p] = "failed"
        /\ loc[p].err.kind = "Unauthorized"
        /\ loc[p].networkId \in NetworkIds
        /\ loc[p].hasSdk

\* C8: every run that rebuilds PROVIDERS leaves it with exactly the four
\* network ids, each on a provider of its own made in that run: none that
\* existed before, none with an assigned getFeeData.
C8_RegistryRebuiltWhole ==
    [][(ReconfigStep /\ lastReconf'.rebuilt)
          => /\ DOMAIN PROVIDERS' = {84532, 8453, 137, 690}
             /\ \A m, n \in DOMAIN PROVIDERS' : m # n => PROVIDERS'[m] # PROVIDERS'[n]
             /\ \A n \in DOMAIN PROVIDERS' :
                   /\ PROVIDERS'[n] \in DOMAIN conns'
                   /\ PROVIDERS'[n] \notin DOMAIN conns
                   /\ PROVIDERS'[n] \notin Range(PROVIDERS)
                   /\ conns'[PROVIDERS'[n]].network = n
                   /\ ~conns'[PROVIDERS'[n]].fee.installed]_vars

\* a second rebuild replaced a registry one of whose providers had the
\* assigned getFeeData
C8_Witness ==
    /\ reconfigs.rebuilt = 2
    /\ \E h \in DOMAIN conns : conns[h].fee.installed /\ h \notin Range(PROVIDERS)

C10_ReportIsTruthful ==
    lastReconf.via = "tool" =>
        (lastReconf.report = "Configuration updated successfully" <=> lastReconf.rebuilt)

\* C11: before any successful configuration every tool of the catalogue,
\* configure_from_url among them, returns an error that says a configuration
\* is required, and no delegate operation is invoked.
C11_EveryToolDemandsConfiguration ==
    [][reconfigs.rebuilt = 0
          => /\ \A p \in Procs :
                   CallStep(p) => /\ pc'[p] = "failed"
                                  /\ loc'[p].err = NotConfiguredError
                                  /\ loc'[p].delegateCalls = 0
             /\ (ReconfigStep /\ lastReconf'.via = "tool")
                   => /\ lastReconf'.threw
                      /\ lastReconf'.report # "Configuration updated successfully"]_vars

\* the tools that change state on the exchange
StateMutatingTools == RefreshTools \cup PlainTxTools

\* C12: every state-mutating tool that has returned has armed the settlement
\* timer and called the price/candle refresh once, after its delegate
\* returned; a read-only tool that has returned has called no refresh.
C12_MutatingToolsRefresh ==
    \A p \in Procs :
        pc[p] = "done"
            => IF loc[p].tool \in StateMutatingTools
               THEN /\ loc[p].delegateCalls = 1
                    /\ loc[p].timeoutMs = SettlementDelay(loc[p].networkId)
                    /\ loc[p].refreshCalls = 1
               ELSE loc[p].refreshCalls = 0

\* C13: in a tool that performs the refresh, the refresh is called only after
\* the settlement timer has expired, and the tool returns only after it.
C13_RefreshAfterTimer ==
    \A p \in Procs :
        /\ loc[p].refreshCalls > 0
              => /\ loc[p].delegateCalls = 1
                 /\ loc[p].timeoutMs = SettlementDelay(loc[p].networkId)
                 /\ ~loc[p].refreshBeforeTimer
        /\ (pc[p] = "done" /\ loc[p].refreshCalls > 0) => loc[p].id \notin timers

\* C14: once the delegate has returned and the refresh has been called, the
\* tool does not fail: whatever the refresh does, the handler ends by
\* returning the serialized value of the delegate.
C14_RefreshFailureIsSwallowed ==
    [][\A p \in Procs :
          (pc[p] = "awaitRefresh" /\ pc'[p] # pc[p])
              => /\ pc'[p] = "done"
                 /\ loc'[p].result = "json"
                 /\ loc'[p].err = NoError]_vars

\* the stage at which a source is defective, "none" for a well-formed one
FailurePoint(url) ==
    IF ~url.isURL THEN "MalformedSource"
    ELSE IF ~url.hasParam \/ url.chars = "empty" THEN "MissingConfigParameter"
    ELSE IF url.chars = "dirty" THEN "InvalidEncoding"
    ELSE IF url.doc.syntax # "object" THEN "InvalidJSON"
    ELSE IF Falsy(url.doc.wallet) \/ Falsy(url.doc.key) THEN "IncompleteConfig"
    ELSE "none"

\* C15: parseConfigFromURL fails on every defective source, and on two
\* sources defective at different stages it returns different values, so
\* that its caller can tell the stages apart.
C15_DistinctErrorKinds ==
    /\ \A i \in 1..2 :
          (probe.ran[i] /\ FailurePoint(probe.src[i]) # "none") => ~probe.out[i].ok
    /\ (probe.ran[1] /\ probe.ran[2]
            /\ FailurePoint(probe.src[1]) # FailurePoint(probe.src[2]))
          => probe.out[1] # probe.out[2]

\* a configuration with both fields absent, or with both present and non-empty
WholeConfig(config) ==
    \/ config = InitialConfig
    \/ ~Falsy(config.WALLET_PRIVATE_KEY) /\ ~Falsy(config.INFURA_API_KEY)

\* the two fields as one source carries them
FieldsOf(url) ==
    [WALLET_PRIVATE_KEY |-> url.doc.wallet, INFURA_API_KEY |-> url.doc.key]

\* C16: the held configuration is always the initial one or has both fields
\* present and non-empty, and a step that changes it is a run of
\* updateConfigFromURL that puts in both fields of one source.
C16_ConfigurationWhole ==
    /\ WholeConfig(globalConfig)
    /\ [][/\ WholeConfig(globalConfig')
          /\ globalConfig' # globalConfig
                => /\ ReconfigStep
                   /\ \E url \in Sources : globalConfig' = FieldsOf(url)]_vars

\* the configuration of one source was replaced by that of another
C16_Witness ==
    /\ reconfigs.rebuilt = 2
    /\ globalConfig = FieldsOf(SrcB)
    /\ Len(conns) > 0 /\ conns[1].apiKey = SrcA.doc.key

\* the source the configure_from_url call of this step was given
StepSource == probe.src[probe'.last]

DelegateStep(p) == loc'[p].delegateCalls = loc[p].delegateCalls + 1

\* C18: when a delegate operation is invoked, sdk.provider is the provider
\* PROVIDERS holds for the invocation's networkId at that moment.
C18_DelegateOnCurrentConnection ==
    [][\A p \in Procs :
          DelegateStep(p)
              => loc'[p].delegateProvider = Lookup(PROVIDERS', loc'[p].networkId)]_vars

\* C19: when a delegate operation is invoked, sdk.provider has the assigned
\* getFeeData of lines 97-105 and is the provider the signer's Wallet was
\* made with.
C19_DelegateOnOverriddenSignerConnection ==
    [][\A p \in Procs :
          DelegateStep(p)
              => /\ loc'[p].delegateProvider # NoProvider
                 /\ conns'[loc'[p].delegateProvider].fee.installed
                 /\ loc'[p].hasSigner
                 /\ loc'[p].delegateProvider = loc'[p].signerProvider]_vars

\* C20: whenever PROVIDERS is non-empty, each of its providers was made with
\* the API key of the held configuration.
C20_RegistryFromHeldConfiguration ==
    \A n \in DOMAIN PROVIDERS :
        conns[PROVIDERS[n]].apiKey = EndpointKey(n, globalConfig.INFURA_API_KEY)

\* the handler of p has done nothing beyond createSDK
NothingBeyondCreateSDK(l) ==
    /\ l.delegateCalls = 0 /\ l.delegateProvider = NoProvider
    /\ l.timeoutMs = 0
    /\ l.refreshCalls = 0
    /\ l.result = ""

\* C21: when createSDK throws in a handler, at its checks or at new Wallet,
\* the handler rejects with the error createSDK threw, and that is the end
\* of the invocation: no setProvider, no delegate operation, no timer, no
\* updateKline and no returned text.
C21_CreateSDKFailurePropagates ==
    [][\A p \in Procs :
          /\ (CallStep(p) /\ PreconditionError(globalConfig, PROVIDERS,
                                                loc'[p].networkId) # NoError)
                => /\ pc'[p] = "failed"
                   /\ loc'[p].err \in {NotConfiguredError, UnknownNetworkError}
                   /\ loc'[p].sdkProvider = NoProvider
                   /\ NothingBeyondCreateSDK(loc'[p])
          /\ (pc[p] = "awaitFee" /\ pc'[p] = "awaitSetSigner")
                => ~WalletThrows(globalConfig.WALLET_PRIVATE_KEY)
          /\ (pc[p] = "awaitFee" /\ pc'[p] = "failed")
                => /\ \/ loc'[p].err = RpcError /\ ~loc'[p].hasSdk
                      \/ /\ WalletThrows(globalConfig.WALLET_PRIVATE_KEY)
                         /\ loc'[p].hasSdk
                         /\ loc'[p].sdkProvider = loc[p].provider
                         /\ loc'[p].err = UnauthorizedError(
                                WalletCause(globalConfig.WALLET_PRIVATE_KEY))
                   /\ NothingBeyondCreateSDK(loc'[p])
          /\ (pc[p] = "failed" /\ loc[p].delegateCalls = 0)
                => \/ pc'[p] = "failed" /\ loc'[p] = loc[p]
                   \/ CallStep(p)
          /\ (pc[p] = "failed" /\ loc[p].delegateCalls = 0)
                => (loc[p].id \notin timers /\ loc[p].id \notin timers')]_vars

\* place_limit_order failed with the 401 response of createSDK, and an
\* earlier call had failed at a check of createSDK
C21_Witness ==
    /\ calls = 2
    /\ \E p \in Procs :
          /\ pc[p] = "failed"
          /\ loc[p].id = 2
          /\ loc[p].tool = "place_limit_order"
          /\ loc[p].err.kind = "Unauthorized"
          /\ loc[p].feeQueries = 1

\* the positions of a handler after createSDK and setProvider have returned
AfterReBindPcs == {"awaitDelegate", "awaitTimeout", "awaitRefresh", "done"}

\* C22: an invocation calls its delegate operation at most once; once
\* createSDK has returned, the handler's next steps are setProvider and then
\* the one call of the delegate; when the delegate rejects, the
\* handler rejects with the delegate's error, without a second call and
\* without a returned text, and that is the end of the invocation.
C22_DelegateOnceNoRetry ==
    /\ [](\A p \in Procs :
             /\ loc[p].delegateCalls <= 1
             /\ pc[p] \in AfterReBindPcs => loc[p].delegateCalls = 1
             /\ pc[p] \in {"awaitFee", "awaitSetSigner", "awaitSetProvider"}
                   => loc[p].delegateCalls = 0)
    /\ [][\A p \in Procs :
             /\ (pc[p] = "awaitSetSigner" /\ pc'[p] # pc[p])
                   => pc'[p] = "awaitSetProvider"
             /\ (pc[p] = "awaitSetProvider" /\ pc'[p] # pc[p])
                   => (pc'[p] = "awaitDelegate" /\ loc'[p].delegateCalls = 1)
             /\ (pc[p] = "awaitDelegate" /\ pc'[p] = "failed")
                   => /\ loc'[p].err = DelegateError
                      /\ loc'[p].delegateCalls = 1
                      /\ loc'[p].refreshCalls = 0
                      /\ loc'[p].result = ""
             /\ (pc[p] = "failed" /\ loc[p].err = DelegateError)
                   => \/ pc'[p] = "failed" /\ loc'[p] = loc[p]
                      \/ CallStep(p)]_vars

\* the second invocation, a place_limit_order, failed because its delegate
\* operation rejected
C22_Witness ==
    /\ calls = 2
    /\ \E p \in Procs :
          /\ pc[p] = "failed"
          /\ loc[p].id = 2
          /\ loc[p].tool = "place_limit_order"
          /\ loc[p].err = DelegateError
          /\ loc[p].delegateCalls = 1

SuccessfulReconfigStep == ReconfigStep /\ lastReconf'.rebuilt

\* C24: globalConfig and PROVIDERS are those of the last run of
\* updateConfigFromURL that succeeded: such a run puts in the fields of its
\* source and a registry of providers made in that run with its API key, none
\* kept from before, and no other step changes either of the two.
C24_LastSuccessfulWins ==
    [][/\ SuccessfulReconfigStep
             => /\ \E url \in Sources : globalConfig' = FieldsOf(url)
                /\ Range(PROVIDERS') \cap (DOMAIN conns \cup Range(PROVIDERS)) = {}
                /\ \A n \in DOMAIN PROVIDERS' :
                      conns'[PROVIDERS'[n]].apiKey =
                          EndpointKey(n, globalConfig'.INFURA_API_KEY)
       /\ ~SuccessfulReconfigStep
             => (globalConfig' = globalConfig /\ PROVIDERS' = PROVIDERS)]_vars
====
